---- MODULE Spec2Model ----
(***************************************************************************)
(* EmbeddingEnumerator of torchrec/distributed/planner/enumerators.py.     *)
(*                                                                         *)
(* Python lists are sequences.  An Optional value is <<>> (None) or <<v>>. *)
(* A module path is the Python string itself.  A name produced by          *)
(* named_modules() is kept as the sequence of its dot-separated segments,  *)
(* so that n.split(".")[-1] is the last element.                           *)
(***************************************************************************)
EXTENDS Integers, Sequences, FiniteSets, TLC

VARIABLES
    module,            \* the module tree handed to enumerate: node id -> node
    sharders,          \* the sharder list handed to enumerate
    kernel_lists,      \* per sharder class, per sharding type: the list object
                       \* sharder.compute_kernels hands out
    shares_list,       \* TRUE: compute_kernels returns its stored list object,
                       \* FALSE: it builds a new list on every call
    _constraints,      \* self._constraints
    _estimators,       \* self._estimators
    _sharder_map,      \* self._sharder_map
    pc,                \* position inside enumerate
    named_modules_queue,
    cur,               \* <<>> or <<[path, node, sharder_key, idx]>>: the
                       \* shardable node whose tables are being processed
    sharding_options,
    visited,           \* every (child_path, child_module) popped, in order
    calls,             \* every filter call of this enumerate, in order
    est_pc,            \* position inside populate_estimates: "none" when it
                       \* is not running
    est_arg,           \* the list populate_estimates was handed
    est_idx,           \* position in populate_estimates' loop
    est_log,           \* estimator events: call / return
    direct_left,       \* populate_estimates calls the caller of the
                       \* enumerator still makes from outside enumerate
    raised,            \* <<>> or <<exception>>
    returned,          \* <<>> or <<the list enumerate returned>>
    fin,               \* a single call of one of the module's functions
    fout               \* <<>> or <<its outcome>>

vars == <<module, sharders, kernel_lists, shares_list, _constraints,
          _estimators, _sharder_map, pc, named_modules_queue, cur,
          sharding_options, visited, calls, est_pc, est_arg, est_idx,
          est_log, direct_left, raised, returned, fin, fout>>

-----------------------------------------------------------------------------
(* Bounds *)

\* longest list handed to a filter in the single-call specification
MaxListLen == 3
\* longest estimator list handed to the constructor
MaxEstimators == 2
\* most populate_estimates calls made from outside enumerate
MaxDirectCalls == 1

-----------------------------------------------------------------------------
(* Values *)

None == <<>>
Some(v) == <<v>>

Range(s) == {s[i] : i \in 1..Len(s)}

\* every list that enumerates the set S once
PermSeqs(S) ==
    {s \in [1..Cardinality(S) -> S] : \A i, j \in 1..Cardinality(S) : s[i] = s[j] => i = j}

\* every list over S of length at most n, repeated entries included
Lists(S, n) == UNION {[1..k -> S] : k \in 0..n}

\* list(set(...)): the elements of S in the iteration order `order`
ListOfSet(S, order) == SelectSeq(order, LAMBDA x : x \in S)

\* list.remove(x): drops the first occurrence of x
RECURSIVE ListRemove(_, _)
ListRemove(s, x) ==
    IF s = <<>> THEN <<>>
    ELSE IF Head(s) = x THEN Tail(s)
    ELSE <<Head(s)>> \o ListRemove(Tail(s), x)

DENSE == "dense"
FUSED == "fused"
FUSED_UVM == "fused_uvm"
ComputeKernels == {DENSE, FUSED, FUSED_UVM}

TABLE_WISE == "table_wise"
COLUMN_WISE == "column_wise"
ROW_WISE == "row_wise"
TABLE_ROW_WISE == "table_row_wise"
TABLE_COLUMN_WISE == "table_column_wise"
DATA_PARALLEL == "data_parallel"
UNSUPPORTED == "grid_shard"
ShardingTypes ==
    {TABLE_WISE, COLUMN_WISE, ROW_WISE, TABLE_ROW_WISE, TABLE_COLUMN_WISE, DATA_PARALLEL}
ShardingTags == ShardingTypes \cup {UNSUPPORTED}

PB_DEVICE == "device"
PB_HOST == "host"
PB_UNIFORM == "uniform"

-----------------------------------------------------------------------------
(* The module's functions *)

\* self._constraints.get(name), with "no constraints" and "no entry" both None
ConstraintsGet(constraints, name) ==
    IF constraints = None THEN None
    ELSE IF name \in DOMAIN constraints[1] THEN Some(constraints[1][name])
    ELSE None

\* The outcome of a filter: the list returned, the argument list as the call
\* leaves it, and whether logger.warn was called.
FilterSkipsConstraint(constraints, name) ==
    \/ constraints = None
    \/ DOMAIN constraints[1] = {}
    \/ ConstraintsGet(constraints, name) = None

\* lines 198-222
_filter_sharding_types(constraints, name, allowed_sharding_types, order) ==
    IF FilterSkipsConstraint(constraints, name)
    THEN [result |-> allowed_sharding_types, arg_after |-> allowed_sharding_types,
          warned |-> FALSE]
    ELSE LET c == constraints[1][name]
         IN  IF c.sharding_types = <<>>
             THEN [result |-> allowed_sharding_types,
                   arg_after |-> allowed_sharding_types, warned |-> FALSE]
             ELSE LET filtered ==
                          ListOfSet(Range(c.sharding_types)
                                        \cap Range(allowed_sharding_types), order)
                  IN  [result |-> filtered, arg_after |-> allowed_sharding_types,
                       warned |-> (filtered = <<>>)]

\* mutant: fused is the one removed
DropDense_RemovesFused(filtered, allowed, aliased) ==
    LET both == DENSE \in Range(filtered) /\ FUSED \in Range(filtered)
        out == IF both THEN ListRemove(filtered, FUSED) ELSE filtered
    IN  [result |-> out,
         arg_after |-> IF aliased THEN out ELSE allowed,
         warned |-> (out = <<>>)]

\* lines 246-250: dense leaves a list that also holds fused; `aliased` says the
\* list is the caller's own list object
DropDense(filtered, allowed, aliased) ==
    LET both == DENSE \in Range(filtered) /\ FUSED \in Range(filtered)
        out == IF both THEN ListRemove(filtered, DENSE) ELSE filtered
    IN  [result |-> out,
         arg_after |-> IF aliased THEN out ELSE allowed,
         warned |-> (out = <<>>)]

_filter_compute_kernels(constraints, name, allowed_compute_kernels, sharding_type, order) ==
    IF FilterSkipsConstraint(constraints, name)
    THEN DropDense(allowed_compute_kernels, allowed_compute_kernels, TRUE)
    ELSE LET c == constraints[1][name]
         IN  IF c.compute_kernels = <<>>
             THEN DropDense(allowed_compute_kernels, allowed_compute_kernels, TRUE)
             ELSE DropDense(ListOfSet(Range(c.compute_kernels)
                                          \cap Range(allowed_compute_kernels), order),
                            allowed_compute_kernels, FALSE)

\* mutant: column-wise is put in the host class
get_partition_by_type_ColumnHost(sharding_type) ==
    IF sharding_type \in {TABLE_WISE} THEN Some(PB_DEVICE)
    ELSE IF sharding_type \in {TABLE_ROW_WISE, TABLE_COLUMN_WISE, COLUMN_WISE}
    THEN Some(PB_HOST)
    ELSE IF sharding_type \in {ROW_WISE, DATA_PARALLEL} THEN Some(PB_UNIFORM)
    ELSE None

\* Some(class), or None when the ValueError is raised
get_partition_by_type(sharding_type) ==
    IF sharding_type \in {TABLE_WISE, COLUMN_WISE} THEN Some(PB_DEVICE)
    ELSE IF sharding_type \in {TABLE_ROW_WISE, TABLE_COLUMN_WISE} THEN Some(PB_HOST)
    ELSE IF sharding_type \in {ROW_WISE, DATA_PARALLEL} THEN Some(PB_UNIFORM)
    ELSE None

IsEmbeddingLeaf(m) == m.kind \in {"Embedding", "EmbeddingBag"}

\* does tower (a list of named modules) hold an embedding named `name`
TowerOwns(tower, name) ==
    \E k \in 1..Len(tower) :
        /\ IsEmbeddingLeaf(tower[k])
        /\ tower[k].n[Len(tower[k].n)] = name

\* mutant: the index of the embedding inside its tower is returned
_get_tower_index_Inner(name, towers) ==
    LET owners == {i \in 1..Len(towers) : TowerOwns(towers[i], name)}
    IN  IF owners = {} THEN None
        ELSE Some(0)

\* Some(index of the first owning tower), or None when the RuntimeError is
\* raised; Python indices start at 0
_get_tower_index(name, towers) ==
    LET owners == {i \in 1..Len(towers) : TowerOwns(towers[i], name)}
    IN  IF owners = {} THEN None
        ELSE Some((CHOOSE i \in owners : \A j \in owners : i <= j) - 1)

-----------------------------------------------------------------------------
(* The inputs of enumerate: module trees, sharders, constraints *)

ModuleType(q) == [module |-> "torchrec.modules", qualname |-> q]
EmbeddingTower == ModuleType("EmbeddingTower")
EmbeddingTowerCollection == ModuleType("EmbeddingTowerCollection")
EmbeddingBagCollection == ModuleType("EmbeddingBagCollection")
Container == ModuleType("Module")

\* torchrec.distributed.planner.utils.sharder_name
sharder_name(t) == t.module \o "." \o t.qualname

Node(t, children, tables, towers) ==
    [type |-> t, children |-> children, tables |-> tables, towers |-> towers]
Child(n, m) == [n |-> n, m |-> m]
Named(n, kind) == [n |-> n, kind |-> kind]

\* one embedding table under an ordinary module
TreeSingle ==
    <<Node(Container, <<Child("sparse", 2)>>, <<>>, <<>>),
      Node(EmbeddingBagCollection, <<Child("embedding_bags", 3)>>, <<"t1">>, <<>>),
      Node(ModuleType("ModuleDict"), <<>>, <<>>, <<>>)>>

\* a tower collection at encoder.towers: t1 and t2 in tower 0, t3 in tower 1
TreeTowers ==
    <<Node(Container, <<Child("encoder", 2), Child("over", 5)>>, <<>>, <<>>),
      Node(Container, <<Child("towers", 3)>>, <<>>, <<>>),
      Node(EmbeddingTowerCollection, <<Child("towers", 4)>>, <<"t1", "t2", "t3">>,
           <<<<Named(<<"">>, "EmbeddingTower"),
               Named(<<"embedding">>, "EmbeddingBagCollection"),
               Named(<<"embedding", "embedding_bags", "t1">>, "EmbeddingBag"),
               Named(<<"embedding", "embedding_bags", "t2">>, "EmbeddingBag"),
               Named(<<"interaction">>, "Linear")>>,
             <<Named(<<"">>, "EmbeddingTower"),
               Named(<<"embedding", "embeddings", "t3">>, "Embedding")>>>>),
      Node(ModuleType("ModuleList"), <<>>, <<>>, <<>>),
      Node(ModuleType("Linear"), <<>>, <<>>, <<>>)>>

\* a tower that wraps an embedding bag collection
TreeTower ==
    <<Node(Container, <<Child("tower", 2)>>, <<>>, <<>>),
      Node(EmbeddingTower, <<Child("embedding", 3), Child("interaction", 4)>>,
           <<"t1", "t2">>, <<>>),
      Node(EmbeddingBagCollection, <<>>, <<"t1", "t2">>, <<>>),
      Node(ModuleType("Linear"), <<>>, <<>>, <<>>)>>

\* the root itself is a tower collection; no tower holds an embedding named t3
TreeOrphan ==
    <<Node(EmbeddingTowerCollection, <<>>, <<"t1", "t3">>,
           <<<<Named(<<"embedding", "t1">>, "EmbeddingBag"),
               Named(<<"t3">>, "Linear")>>>>)>>

\* two embedding bag collections at different depths
TreeTwo ==
    <<Node(Container, <<Child("a", 2), Child("b", 3)>>, <<>>, <<>>),
      Node(EmbeddingBagCollection, <<>>, <<"t1">>, <<>>),
      Node(Container, <<Child("c", 4)>>, <<>>, <<>>),
      Node(EmbeddingBagCollection, <<>>, <<"t2", "t3">>, <<>>)>>

Trees == {TreeSingle, TreeTowers, TreeTower, TreeOrphan, TreeTwo}
TableNames == {"t1", "t2", "t3"}

Sharder(t, cls, sts) == [module_type |-> t, cls |-> cls, sharding_types |-> sts]
SharderClasses == {"EmbeddingBagCollectionSharder", "EmbeddingTowerCollectionSharder",
                   "EmbeddingTowerSharder", "CustomSharder"}

SharderLists(sts) ==
    { <<>>,
      <<Sharder(EmbeddingBagCollection, "EmbeddingBagCollectionSharder", sts)>>,
      <<Sharder(EmbeddingBagCollection, "EmbeddingBagCollectionSharder", sts),
        Sharder(EmbeddingTowerCollection, "EmbeddingTowerCollectionSharder", sts),
        Sharder(EmbeddingTower, "EmbeddingTowerSharder", sts)>>,
      <<Sharder(EmbeddingBagCollection, "EmbeddingBagCollectionSharder", <<>>),
        Sharder(EmbeddingBagCollection, "CustomSharder", sts)>> }

ShardingTypeLists ==
    { <<TABLE_WISE, ROW_WISE>>,
      <<TABLE_WISE, COLUMN_WISE, ROW_WISE>>,
      <<DATA_PARALLEL, TABLE_ROW_WISE, TABLE_COLUMN_WISE>>,
      <<ROW_WISE, UNSUPPORTED>>,
      <<>> }

\* what compute_kernels answers for row-wise, and for the other sharding types
KernelPairs ==
    { <<<<DENSE, FUSED>>, <<DENSE, FUSED>>>>,
      <<<<>>, <<DENSE, FUSED>>>>,
      <<<<>>, <<>>>>,
      <<<<FUSED_UVM, FUSED>>, <<DENSE>>>>,
      <<<<DENSE, FUSED>>, <<FUSED_UVM, FUSED>>>>,
      <<<<DENSE>>, <<>>>>,
      <<<<DENSE, DENSE, FUSED>>, <<DENSE, DENSE, FUSED>>>> }

KernelTable(rw, other) ==
    [st \in ShardingTags |-> IF st = ROW_WISE THEN rw ELSE other]

ParameterConstraints(sts, cks) == [sharding_types |-> sts, compute_kernels |-> cks]

ConstraintSettings ==
    { None,
      Some(<<>>),
      Some([n \in {"t1"} |-> ParameterConstraints(<<>>, <<>>)]),
      Some([n \in {"t1"} |-> ParameterConstraints(<<ROW_WISE>>, <<>>)]),
      Some([n \in {"t1"} |-> ParameterConstraints(<<COLUMN_WISE>>, <<DENSE>>)]),
      Some([n \in {"t2", "t3"} |->
               IF n = "t3" THEN ParameterConstraints(<<>>, <<DENSE, FUSED>>)
               ELSE ParameterConstraints(<<ROW_WISE, TABLE_WISE>>, <<FUSED_UVM, DENSE>>)]) }

Topology == [compute_device |-> "cuda"]

\* __init__: a missing or empty estimator argument means the two defaults
EstimatorPool == <<"e1", "e2", "e3", "e4">>
DefaultEstimators == <<"EmbeddingPerfEstimator", "EmbeddingStorageEstimator">>
EstimatorArgs ==
    {[kind |-> "none", es |-> <<>>], [kind |-> "single", es |-> <<"e1">>]}
        \cup {[kind |-> "list", es |-> SubSeq(EstimatorPool, 1, k)] : k \in 0..MaxEstimators}

InitEstimators(estimator) ==
    IF estimator.kind = "none" \/ (estimator.kind = "list" /\ estimator.es = <<>>)
    THEN DefaultEstimators
    ELSE estimator.es

-----------------------------------------------------------------------------
(* enumerate, step by step *)

\* lines 93-95: a dict comprehension, so the last sharder of a type wins
BuildSharderMap(shs) ==
    LET keys == {sharder_name(shs[i].module_type) : i \in 1..Len(shs)}
        last(k) == CHOOSE i \in 1..Len(shs) :
                       /\ sharder_name(shs[i].module_type) = k
                       /\ \A j \in 1..Len(shs) :
                              sharder_name(shs[j].module_type) = k => j <= i
    IN  [k \in keys |-> shs[last(k)]]

\* lines 104-108: the path of child n of the module at child_path
ChildPath(child_path, n) ==
    IF child_path # "" THEN child_path \o "." \o n ELSE n

\* mutant: only the first child is pushed
PushChildren_First(queue, child_path, children) ==
    queue \o [i \in 1..(IF children = <<>> THEN 0 ELSE 1) |->
                 [path |-> ChildPath(child_path, children[i].n), node |-> children[i].m]]

PushChildren(queue, child_path, children) ==
    queue \o [i \in 1..Len(children) |->
                 [path |-> ChildPath(child_path, children[i].n), node |-> children[i].m]]

\* lines 151-156
Dependency(c, name) ==
    IF module[c.node].type = EmbeddingTower THEN Some(c.path)
    ELSE IF module[c.node].type = EmbeddingTowerCollection
         THEN Some(c.path \o ".tower_"
                       \o ToString(_get_tower_index(name, module[c.node].towers)[1]))
    ELSE None

Exception(exc, kind, about) == [exc |-> exc, kind |-> kind, about |-> about]

\* what building a ShardingOption of (name, sharding_type) raises, if anything
PairError(c, name, sharding_type) ==
    IF /\ module[c.node].type = EmbeddingTowerCollection
       /\ _get_tower_index(name, module[c.node].towers) = None
    THEN Some(Exception("RuntimeError", "tower_index", <<name>>))
    ELSE IF get_partition_by_type(sharding_type) = None
    THEN Some(Exception("ValueError", "sharding_type", <<sharding_type>>))
    ELSE None

\* lines 157-179
ShardingOption(c, name, sharding_type, compute_kernel) ==
    [name |-> name,
     module |-> <<c.path, c.node>>,
     compute_kernel |-> compute_kernel,
     sharding_type |-> sharding_type,
     partition_by |-> get_partition_by_type(sharding_type)[1],
     dependency |-> Dependency(c, name)]

FilterCall(fn, c, name, sharding_type, arg, f) ==
    [fn |-> fn, path |-> c.path, node |-> c.node, name |-> name,
     sharding_type |-> sharding_type, arg |-> arg, arg_after |-> f.arg_after,
     result |-> f.result, warned |-> f.warned]

\* lines 133-179: the loop over the filtered sharding types, from position i
RECURSIVE TypeLoop(_, _, _, _, _, _, _, _)
TypeLoop(c, name, sts, i, klists, opts, log, order) ==
    IF i > Len(sts)
    THEN [opts |-> opts, klists |-> klists, calls |-> log, err |-> None]
    ELSE LET st == sts[i]
             f == _filter_compute_kernels(_constraints, name, klists[st], st, order)
             klists2 == IF shares_list THEN [klists EXCEPT ![st] = f.arg_after]
                        ELSE klists
             log2 == Append(log, FilterCall("_filter_compute_kernels", c, name, st,
                                            klists[st], f))
         IN  IF f.result # <<>> /\ PairError(c, name, st) # None
             THEN [opts |-> opts, klists |-> klists2, calls |-> log2,
                   err |-> PairError(c, name, st)]
             ELSE TypeLoop(c, name, sts, i + 1, klists2,
                           opts \o [k \in 1..Len(f.result) |->
                                       ShardingOption(c, name, st, f.result[k])],
                           log2, order)

\* lines 180-186
NoCombination(c, name) ==
    Exception("RuntimeError", "no_combination",
              <<name, c.sharder_key, _sharder_map[c.sharder_key].cls,
                Topology.compute_device>>)

\* mutant: a table without options is skipped
TableOutcome_Skips(c, name, st_order, ck_order) ==
    LET sharder == _sharder_map[c.sharder_key]
        fs == _filter_sharding_types(_constraints, name, sharder.sharding_types, st_order)
    IN  TypeLoop(c, name, fs.result, 1, kernel_lists[sharder.cls], <<>>,
                 <<FilterCall("_filter_sharding_types", c, name, "",
                              sharder.sharding_types, fs)>>,
                 ck_order)

\* mutant: one empty kernel list is enough to refuse the table
TableOutcome_Strict(c, name, st_order, ck_order) ==
    LET sharder == _sharder_map[c.sharder_key]
        fs == _filter_sharding_types(_constraints, name, sharder.sharding_types, st_order)
        loop == TypeLoop(c, name, fs.result, 1, kernel_lists[sharder.cls], <<>>,
                         <<FilterCall("_filter_sharding_types", c, name, "",
                                      sharder.sharding_types, fs)>>,
                         ck_order)
    IN  IF loop.err = None
           /\ (loop.opts = <<>> \/ \E i \in 1..Len(loop.calls) : loop.calls[i].result = <<>>)
        THEN [loop EXCEPT !.err = Some(NoCombination(c, name))]
        ELSE loop

\* lines 120-188: the body of the loop over the tables, for one table
TableOutcome(c, name, st_order, ck_order) ==
    LET sharder == _sharder_map[c.sharder_key]
        fs == _filter_sharding_types(_constraints, name, sharder.sharding_types, st_order)
        loop == TypeLoop(c, name, fs.result, 1, kernel_lists[sharder.cls], <<>>,
                         <<FilterCall("_filter_sharding_types", c, name, "",
                                      sharder.sharding_types, fs)>>,
                         ck_order)
    IN  IF loop.err = None /\ loop.opts = <<>>
        THEN [loop EXCEPT !.err = Some(NoCombination(c, name))]
        ELSE loop

\* the orders in which list(set & set) may list the constrained values
ConstrainedOrders(name, field) ==
    IF ConstraintsGet(_constraints, name) = None THEN {<<>>}
    ELSE PermSeqs(Range(ConstraintsGet(_constraints, name)[1][field]))

\* lines 93-98
EnumerateStart ==
    /\ pc = "idle"
    /\ est_pc = "none"
    /\ _sharder_map' = BuildSharderMap(sharders)
    /\ sharding_options' = <<>>
    /\ named_modules_queue' = <<[path |-> "", node |-> 1]>>
    /\ pc' = "walk"
    /\ UNCHANGED <<module, sharders, kernel_lists, shares_list, _constraints,
                   _estimators, cur, visited, calls, est_pc, est_arg, est_idx,
                   est_log, direct_left, raised, returned, fin, fout>>

Popped == named_modules_queue[Len(named_modules_queue)]
PoppedKey == sharder_name(module[Popped.node].type)

\* lines 99-109: a module without a sharder: its children are pushed
VisitModule ==
    /\ pc = "walk"
    /\ named_modules_queue # <<>>
    /\ PoppedKey \notin DOMAIN _sharder_map
    /\ named_modules_queue' =
           PushChildren(SubSeq(named_modules_queue, 1, Len(named_modules_queue) - 1),
                        Popped.path, module[Popped.node].children)
    /\ visited' = Append(visited, Popped)
    /\ UNCHANGED <<module, sharders, kernel_lists, shares_list, _constraints,
                   _estimators, _sharder_map, pc, cur, sharding_options, calls,
                   est_pc, est_arg, est_idx, est_log, direct_left, raised,
                   returned, fin, fout>>

\* lines 99-103, 118-120: a module with a sharder: its tables are next
VisitShardable ==
    /\ pc = "walk"
    /\ named_modules_queue # <<>>
    /\ PoppedKey \in DOMAIN _sharder_map
    /\ named_modules_queue' = SubSeq(named_modules_queue, 1, Len(named_modules_queue) - 1)
    /\ visited' = Append(visited, Popped)
    /\ IF module[Popped.node].tables = <<>>
       THEN pc' = "walk" /\ cur' = None
       ELSE /\ pc' = "tables"
            /\ cur' = Some([path |-> Popped.path, node |-> Popped.node,
                            sharder_key |-> PoppedKey, idx |-> 1])
    /\ UNCHANGED <<module, sharders, kernel_lists, shares_list, _constraints,
                   _estimators, _sharder_map, sharding_options, calls, est_pc,
                   est_arg, est_idx, est_log, direct_left, raised, returned,
                   fin, fout>>

CurTable == module[cur[1].node].tables[cur[1].idx]

StoreKernelLists(out) ==
    kernel_lists' = [kernel_lists EXCEPT ![_sharder_map[cur[1].sharder_key].cls] = out.klists]

\* lines 120-188: one table gets its options
ProcessTable ==
    /\ pc = "tables"
    /\ \E st_order \in ConstrainedOrders(CurTable, "sharding_types") :
       \E ck_order \in ConstrainedOrders(CurTable, "compute_kernels") :
         LET out == TableOutcome(cur[1], CurTable, st_order, ck_order)
         IN  /\ out.err = None
             /\ sharding_options' = sharding_options \o out.opts
             /\ calls' = calls \o out.calls
             /\ StoreKernelLists(out)
    /\ IF cur[1].idx < Len(module[cur[1].node].tables)
       THEN pc' = "tables" /\ cur' = Some([cur[1] EXCEPT !.idx = @ + 1])
       ELSE pc' = "walk" /\ cur' = None
    /\ UNCHANGED <<module, sharders, shares_list, _constraints, _estimators,
                   _sharder_map, named_modules_queue, visited, est_pc, est_arg,
                   est_idx, est_log, direct_left, raised, returned, fin, fout>>

\* lines 155, 166, 180-186: an exception leaves enumerate
RaiseInTable ==
    /\ pc = "tables"
    /\ \E st_order \in ConstrainedOrders(CurTable, "sharding_types") :
       \E ck_order \in ConstrainedOrders(CurTable, "compute_kernels") :
         LET out == TableOutcome(cur[1], CurTable, st_order, ck_order)
         IN  /\ out.err # None
             /\ raised' = out.err
             /\ calls' = calls \o out.calls
             /\ StoreKernelLists(out)
    /\ pc' = "raised"
    /\ UNCHANGED <<module, sharders, shares_list, _constraints, _estimators,
                   _sharder_map, named_modules_queue, cur, sharding_options,
                   visited, est_pc, est_arg, est_idx, est_log, direct_left,
                   returned, fin, fout>>

\* line 190: the walk is over, enumerate calls populate_estimates on its list
PopulateEstimates ==
    /\ pc = "walk"
    /\ named_modules_queue = <<>>
    /\ est_pc = "none"
    /\ pc' = "populate"
    /\ est_pc' = "loop"
    /\ est_arg' = sharding_options
    /\ est_idx' = 1
    /\ UNCHANGED <<module, sharders, kernel_lists, shares_list, _constraints,
                   _estimators, _sharder_map, named_modules_queue, cur,
                   sharding_options, visited, calls, est_log, direct_left,
                   raised, returned, fin, fout>>

\* a ShardingOption the caller of populate_estimates has built
ClientOption ==
    [name |-> "t1",
     module |-> <<"sparse", 2>>,
     compute_kernel |-> FUSED,
     sharding_type |-> TABLE_WISE,
     partition_by |-> PB_DEVICE,
     dependency |-> None]

\* the lists a caller hands to populate_estimates: an empty one, one of its
\* own, the list enumerate returned, or the first option of that list
GivenLists ==
    {<<>>, <<ClientOption>>}
        \cup (IF returned = None THEN {}
              ELSE {returned[1],
                    SubSeq(returned[1], 1, IF returned[1] = <<>> THEN 0 ELSE 1)})

\* lines 194-196: populate_estimates is called on the enumerator from outside
\* enumerate: before enumerate was called, after it returned or after it raised
CallPopulateEstimates ==
    /\ pc \in {"idle", "done", "raised"}
    /\ est_pc = "none"
    /\ direct_left > 0
    /\ \E given \in GivenLists : est_arg' = given
    /\ est_pc' = "loop"
    /\ est_idx' = 1
    /\ direct_left' = direct_left - 1
    /\ UNCHANGED <<module, sharders, kernel_lists, shares_list, _constraints,
                   _estimators, _sharder_map, pc, named_modules_queue, cur,
                   sharding_options, visited, calls, est_log, raised, returned,
                   fin, fout>>

\* mutant: the estimators are taken from the end of the list
EstimatorEvent_Reversed(ev) ==
    [ev |-> ev, estimator |-> _estimators[Len(_estimators) + 1 - est_idx],
     sharding_options |-> est_arg, sharder_map |-> _sharder_map,
     in_enumerate |-> pc = "populate"]

\* line 196: estimator.estimate(sharding_options, self._sharder_map);
\* in_enumerate tells whether enumerate is the caller of populate_estimates
EstimatorEvent(ev) ==
    [ev |-> ev, estimator |-> _estimators[est_idx],
     sharding_options |-> est_arg, sharder_map |-> _sharder_map,
     in_enumerate |-> pc = "populate"]

\* lines 195-196: the next estimator is called
EstimatorCall ==
    /\ est_pc = "loop"
    /\ est_idx <= Len(_estimators)
    /\ est_log' = Append(est_log, EstimatorEvent("call"))
    /\ est_pc' = "in_estimator"
    /\ UNCHANGED <<module, sharders, kernel_lists, shares_list, _constraints,
                   _estimators, _sharder_map, pc, named_modules_queue, cur,
                   sharding_options, visited, calls, est_arg, est_idx,
                   direct_left, raised, returned, fin, fout>>

\* lines 195-196: it returns
EstimatorReturn ==
    /\ est_pc = "in_estimator"
    /\ est_log' = Append(est_log, EstimatorEvent("return"))
    /\ est_idx' = est_idx + 1
    /\ est_pc' = "loop"
    /\ UNCHANGED <<module, sharders, kernel_lists, shares_list, _constraints,
                   _estimators, _sharder_map, pc, named_modules_queue, cur,
                   sharding_options, visited, calls, est_arg, direct_left,
                   raised, returned, fin, fout>>

\* line 195: the loop is over, populate_estimates returns to its outside caller
PopulateEstimatesReturn ==
    /\ pc # "populate"
    /\ est_pc = "loop"
    /\ est_idx > Len(_estimators)
    /\ est_pc' = "none"
    /\ est_arg' = <<>>
    /\ est_idx' = 0
    /\ UNCHANGED <<module, sharders, kernel_lists, shares_list, _constraints,
                   _estimators, _sharder_map, pc, named_modules_queue, cur,
                   sharding_options, visited, calls, est_log, direct_left,
                   raised, returned, fin, fout>>

\* lines 190-192: populate_estimates returns to enumerate, which returns its list
Return ==
    /\ pc = "populate"
    /\ est_pc = "loop"
    /\ est_idx > Len(_estimators)
    /\ returned' = Some(sharding_options)
    /\ pc' = "done"
    /\ est_pc' = "none"
    /\ est_arg' = <<>>
    /\ est_idx' = 0
    /\ UNCHANGED <<module, sharders, kernel_lists, shares_list, _constraints,
                   _estimators, _sharder_map, named_modules_queue, cur,
                   sharding_options, visited, calls, est_log, direct_left,
                   raised, fin, fout>>

-----------------------------------------------------------------------------
(* Single calls of the module's functions *)

NoCall == [op |-> "none"]

FilterTags == {TABLE_WISE, ROW_WISE, UNSUPPORTED}

\* the constraint settings a filter tells apart for table t1: no mapping, an
\* empty mapping, no entry for the table, an entry with or without a list
CallConstraints(field, values) ==
    {None, Some(<<>>),
     Some([n \in {"t2"} |-> ParameterConstraints(<<ROW_WISE>>, <<DENSE>>)])}
        \cup {Some([n \in {"t1"} |->
                       IF field = "sharding_types"
                       THEN ParameterConstraints(l, <<FUSED>>)
                       ELSE ParameterConstraints(<<TABLE_WISE>>, l)]) :
                  l \in Lists(values, MaxListLen)}

TowerLists == {TreeTowers[3].towers, TreeOrphan[1].towers, <<>>}

Calls ==
    {[op |-> "_filter_sharding_types", constraints |-> c, name |-> "t1", allowed |-> l] :
         c \in CallConstraints("sharding_types", FilterTags),
         l \in Lists(FilterTags, MaxListLen)}
    \cup
    {[op |-> "_filter_compute_kernels", constraints |-> c, name |-> "t1", allowed |-> l] :
         c \in CallConstraints("compute_kernels", ComputeKernels),
         l \in Lists(ComputeKernels, MaxListLen)}
    \cup
    {[op |-> "get_partition_by_type", sharding_type |-> t] : t \in ShardingTags}
    \cup
    {[op |-> "_get_tower_index", name |-> n, towers |-> t] :
         n \in TableNames, t \in TowerLists}

CallOrders(field) ==
    IF ConstraintsGet(fin.constraints, fin.name) = None THEN {<<>>}
    ELSE PermSeqs(Range(ConstraintsGet(fin.constraints, fin.name)[1][field]))

Answer(out) ==
    /\ fout' = Some(out)
    /\ UNCHANGED <<module, sharders, kernel_lists, shares_list, _constraints,
                   _estimators, _sharder_map, pc, named_modules_queue, cur,
                   sharding_options, visited, calls, est_pc, est_arg, est_idx,
                   est_log, direct_left, raised, returned, fin>>

CallFilterShardingTypes ==
    /\ fin.op = "_filter_sharding_types"
    /\ fout = None
    /\ \E order \in CallOrders("sharding_types") :
           Answer(_filter_sharding_types(fin.constraints, fin.name, fin.allowed, order))

CallFilterComputeKernels ==
    /\ fin.op = "_filter_compute_kernels"
    /\ fout = None
    /\ \E order \in CallOrders("compute_kernels") :
           Answer(_filter_compute_kernels(fin.constraints, fin.name, fin.allowed,
                                          TABLE_WISE, order))

CallGetPartitionByType ==
    /\ fin.op = "get_partition_by_type"
    /\ fout = None
    /\ Answer(get_partition_by_type(fin.sharding_type))

CallGetTowerIndex ==
    /\ fin.op = "_get_tower_index"
    /\ fout = None
    /\ Answer(_get_tower_index(fin.name, fin.towers))

-----------------------------------------------------------------------------

\* the kernel lists of the narrower settings
FewKernelPairs ==
    {<<<<DENSE, FUSED>>, <<DENSE, FUSED>>>>, <<<<>>, <<DENSE, FUSED>>>>, <<<<>>, <<>>>>}

\* the settings in which populate_estimates is also called from outside
\* enumerate: no constraints, fewer sharder and kernel lists
CalledFromOutside ==
    /\ \E sts \in {<<TABLE_WISE, ROW_WISE>>, <<ROW_WISE, UNSUPPORTED>>} :
           sharders \in SharderLists(sts)
    /\ \E k \in FewKernelPairs :
           kernel_lists = [cls \in SharderClasses |-> KernelTable(k[1], k[2])]
    /\ _constraints = None

\* the state after __init__, before enumerate is called
InitEnumerate ==
    /\ module \in Trees
    /\ \E sts \in ShardingTypeLists : sharders \in SharderLists(sts)
    /\ \E k \in KernelPairs :
           kernel_lists = [cls \in SharderClasses |-> KernelTable(k[1], k[2])]
    /\ shares_list \in BOOLEAN
    /\ _constraints \in ConstraintSettings
    /\ \E estimator \in EstimatorArgs : _estimators = InitEstimators(estimator)
    /\ _sharder_map = <<>>
    /\ pc = "idle"
    /\ named_modules_queue = <<>>
    /\ cur = None
    /\ sharding_options = <<>>
    /\ visited = <<>>
    /\ calls = <<>>
    /\ est_pc = "none"
    /\ est_arg = <<>>
    /\ est_idx = 0
    /\ est_log = <<>>
    /\ direct_left \in (IF CalledFromOutside THEN 0..MaxDirectCalls ELSE {0})
    /\ raised = None
    /\ returned = None
    /\ fin = NoCall
    /\ fout = None

\* one function of the module is about to be called on its own
InitCall ==
    /\ module = TreeSingle
    /\ sharders = <<>>
    /\ kernel_lists = [cls \in SharderClasses |-> KernelTable(<<>>, <<>>)]
    /\ shares_list = FALSE
    /\ _constraints = None
    /\ _estimators = DefaultEstimators
    /\ _sharder_map = <<>>
    /\ pc = "call"
    /\ named_modules_queue = <<>>
    /\ cur = None
    /\ sharding_options = <<>>
    /\ visited = <<>>
    /\ calls = <<>>
    /\ est_pc = "none"
    /\ est_arg = <<>>
    /\ est_idx = 0
    /\ est_log = <<>>
    /\ direct_left = 0
    /\ raised = None
    /\ returned = None
    /\ fin \in Calls
    /\ fout = None

Init == InitEnumerate \/ InitCall

Next ==
    \/ EnumerateStart
    \/ VisitModule
    \/ VisitShardable
    \/ ProcessTable
    \/ RaiseInTable
    \/ PopulateEstimates
    \/ CallPopulateEstimates
    \/ EstimatorCall
    \/ EstimatorReturn
    \/ PopulateEstimatesReturn
    \/ Return
    \/ CallFilterShardingTypes
    \/ CallFilterComputeKernels
    \/ CallGetPartitionByType
    \/ CallGetTowerIndex

Spec == Init /\ [][Next]_vars

\* enumerate alone, on fewer sharder and constraint settings
InitWalk ==
    /\ InitEnumerate
    /\ CalledFromOutside
    /\ shares_list = TRUE
    /\ _estimators = DefaultEstimators
    /\ direct_left = 0

NextEnumerate ==
    \/ EnumerateStart
    \/ VisitModule
    \/ VisitShardable
    \/ ProcessTable
    \/ RaiseInTable
    \/ PopulateEstimates
    \/ EstimatorCall
    \/ EstimatorReturn
    \/ Return

\* enumerate is one synchronous call: it runs until it returns or raises
WalkSpec == InitWalk /\ [][NextEnumerate]_vars /\ WF_vars(NextEnumerate)

-----------------------------------------------------------------------------
(* Properties *)

TypeCalls == {i \in 1..Len(calls) : calls[i].fn = "_filter_sharding_types"}
KernelCalls == {i \in 1..Len(calls) : calls[i].fn = "_filter_compute_kernels"}

\* the tables enumerate has worked on so far
TableVisits == {[node |-> calls[i].node, name |-> calls[i].name] : i \in TypeCalls}

KernelCallsOf(v) ==
    {i \in KernelCalls : calls[i].node = v.node /\ calls[i].name = v.name}

\* some (sharding type, compute kernel) pair of the table passed both filters
Survives(v) == \E i \in KernelCallsOf(v) : calls[i].result # <<>>

OptionsOf(v) ==
    {i \in 1..Len(sharding_options) :
         /\ sharding_options[i].module[2] = v.node
         /\ sharding_options[i].name = v.name}

VisitedShardable ==
    {i \in 1..Len(visited) :
         sharder_name(module[visited[i].node].type) \in DOMAIN _sharder_map}

\* the kernels a filter must return, as sets: the intersection with the
\* constrained kernels when there are any, without dense when fused is there
PassIntersection(constraints, name, allowed) ==
    IF ConstraintsGet(constraints, name) = None THEN Range(allowed)
    ELSE IF ConstraintsGet(constraints, name)[1].compute_kernels = <<>> THEN Range(allowed)
    ELSE Range(allowed) \cap Range(ConstraintsGet(constraints, name)[1].compute_kernels)

NeverDenseWithFused(passed, result) ==
    /\ ~({DENSE, FUSED} \subseteq Range(result))
    /\ {DENSE, FUSED} \subseteq passed => DENSE \notin Range(result) /\ FUSED \in Range(result)

\* C1: a table without a surviving (sharding type, compute kernel) pair makes
\* enumerate raise the RuntimeError that names the table, the module key, the
\* sharder class and the compute device; nothing is returned, no estimator has
\* run; and a list that is returned holds an option for every table of every
\* shardable module visited.
C1_EmptyTableAborts ==
    /\ \A v \in TableVisits :
           ~Survives(v) =>
               /\ pc = "raised"
               /\ raised = Some([exc |-> "RuntimeError", kind |-> "no_combination",
                                 about |-> <<v.name, sharder_name(module[v.node].type),
                                             _sharder_map[sharder_name(module[v.node].type)].cls,
                                             "cuda">>])
    /\ raised # None =>
           /\ returned = None
           /\ pc = "raised"
           /\ \A i \in 1..Len(est_log) : ~est_log[i].in_enumerate
    /\ returned # None =>
           \A i \in VisitedShardable :
               \A k \in 1..Len(module[visited[i].node].tables) :
                   \E j \in 1..Len(returned[1]) :
                       /\ returned[1][j].name = module[visited[i].node].tables[k]
                       /\ returned[1][j].module = <<visited[i].path, visited[i].node>>

\* the second table of a module has no pair left, after the first one got options
C1_Witness ==
    /\ pc = "raised"
    /\ raised[1].kind = "no_combination"
    /\ sharding_options # <<>>
    /\ returned = None

\* C2: the list _filter_compute_kernels returns never holds dense and fused
\* together; when both pass the intersection, fused is in it and dense is not.
C2_NeverDenseAndFused ==
    /\ fin.op = "_filter_compute_kernels" /\ fout # None =>
           NeverDenseWithFused(PassIntersection(fin.constraints, fin.name, fin.allowed),
                               fout[1].result)
    /\ \A i \in KernelCalls :
           NeverDenseWithFused(PassIntersection(_constraints, calls[i].name, calls[i].arg),
                               calls[i].result)

\* C10: a filter leaves the allowed list it was handed as it was.
C10_FiltersLeaveInputs ==
    /\ fin.op \in {"_filter_sharding_types", "_filter_compute_kernels"} /\ fout # None =>
           fout[1].arg_after = fin.allowed
    /\ \A i \in 1..Len(calls) : calls[i].arg_after = calls[i].arg

\* the classes of section 4.5
PartitionTable ==
    [t \in ShardingTypes |->
        CASE t = TABLE_WISE -> PB_DEVICE
          [] t = COLUMN_WISE -> PB_DEVICE
          [] t = TABLE_ROW_WISE -> PB_HOST
          [] t = TABLE_COLUMN_WISE -> PB_HOST
          [] t = ROW_WISE -> PB_UNIFORM
          [] t = DATA_PARALLEL -> PB_UNIFORM]

\* C5: get_partition_by_type maps table-wise and column-wise to device,
\* table-row-wise and table-column-wise to host, row-wise and data-parallel to
\* uniform, and raises the ValueError for any other tag; every ShardingOption
\* carries the class of its sharding type.
C5_PartitionByType ==
    /\ fin.op = "get_partition_by_type" /\ fout # None =>
           IF fin.sharding_type \in ShardingTypes
           THEN fout[1] = Some(PartitionTable[fin.sharding_type])
           ELSE fout[1] = None
    /\ \A i \in 1..Len(sharding_options) :
           /\ sharding_options[i].sharding_type \in ShardingTypes
           /\ sharding_options[i].partition_by =
                  PartitionTable[sharding_options[i].sharding_type]
    /\ raised # None /\ raised[1].exc = "ValueError" =>
           raised[1].about[1] \notin ShardingTypes

\* enumerate returned options of host class
C5_Witness ==
    /\ pc = "done"
    /\ \E i \in 1..Len(returned[1]) :
           /\ returned[1][i].sharding_type = TABLE_COLUMN_WISE
           /\ returned[1][i].partition_by = PB_HOST


\* the scenario of C3: one table under an ordinary module, no constraints,
\* a sharder allowing table-wise and row-wise, each with a kernel list that
\* names dense and fused once
SingleTableScenario ==
    /\ pc = "done"
    /\ module = TreeSingle
    /\ _constraints \in {None, Some(<<>>)}
    /\ sharders = <<Sharder(EmbeddingBagCollection, "EmbeddingBagCollectionSharder",
                            <<TABLE_WISE, ROW_WISE>>)>>
    /\ KernelCalls # {}
    /\ \A i \in KernelCalls : calls[i].arg \in PermSeqs({DENSE, FUSED})

Candidates(opts) ==
    {<<opts[i].sharding_type, opts[i].compute_kernel, opts[i].partition_by>> :
         i \in 1..Len(opts)}

\* C3 as stated: the scenario returns 4 candidates, device for the table-wise
\* ones and uniform for the row-wise ones.
C3_FourCandidates ==
    SingleTableScenario =>
        /\ Len(returned[1]) = 4
        /\ Candidates(returned[1]) =
               {<<TABLE_WISE, DENSE, PB_DEVICE>>, <<TABLE_WISE, FUSED, PB_DEVICE>>,
                <<ROW_WISE, DENSE, PB_UNIFORM>>, <<ROW_WISE, FUSED, PB_UNIFORM>>}

\* C3 amended: the scenario returns 2 candidates, table-wise with fused
\* (device) and row-wise with fused (uniform); dense is dropped next to fused.
C3_TwoCandidates ==
    SingleTableScenario =>
        /\ Len(returned[1]) = 2
        /\ Candidates(returned[1]) =
               {<<TABLE_WISE, FUSED, PB_DEVICE>>, <<ROW_WISE, FUSED, PB_UNIFORM>>}

C3_Witness == SingleTableScenario /\ returned # None

\* the tables of the shardable modules visited
TablesVisited ==
    {[node |-> visited[i].node, name |-> module[visited[i].node].tables[k]] :
         <<i, k>> \in {<<i, k>> \in VisitedShardable \X (1..3) :
                          k <= Len(module[visited[i].node].tables)}}

\* the sharding types a table may get: the sharder's, met with the table's
\* constrained ones when it has any
ExpectedTypes(v) ==
    LET allowed == Range(_sharder_map[sharder_name(module[v.node].type)].sharding_types)
        c == ConstraintsGet(_constraints, v.name)
    IN  IF c = None THEN allowed
        ELSE IF c[1].sharding_types = <<>> THEN allowed
        ELSE allowed \cap Range(c[1].sharding_types)

KernelCallFor(v, st) == {i \in KernelCallsOf(v) : calls[i].sharding_type = st}

\* the filtered kernel set of a sharding type, from the list the sharder gave
ExpectedKernels(v, st) ==
    LET passed == UNION {PassIntersection(_constraints, v.name, calls[i].arg) :
                             i \in KernelCallFor(v, st)}
    IN  IF {DENSE, FUSED} \subseteq passed THEN passed \ {DENSE} ELSE passed

ExpectedOptions ==
    UNION {UNION {{<<v.node, v.name, st, k>> : k \in ExpectedKernels(v, st)} :
                      st \in ExpectedTypes(v)} :
               v \in TablesVisited}

OptionKey(o) == <<o.module[2], o.name, o.sharding_type, o.compute_kernel>>

\* C4: the list enumerate returns holds one option, and only one, for every
\* (table, sharding type, compute kernel) with the sharding type allowed by the
\* sharder (and by the table's constrained types when it has some) and the
\* kernel in the filtered kernel set of that sharding type, and nothing else.
C4_ExactlyTheSurvivingTriples ==
    returned # None =>
        /\ \A v \in TablesVisited : \A st \in ExpectedTypes(v) :
               Cardinality(KernelCallFor(v, st)) = 1
        /\ {OptionKey(returned[1][i]) : i \in 1..Len(returned[1])} = ExpectedOptions
        /\ Len(returned[1]) = Cardinality(ExpectedOptions)

\* the estimator events of the enumerate call
EnumerateEvents == SelectSeq(est_log, LAMBDA e : e.in_enumerate)

\* C6: in enumerate no estimator runs before the walk is over and the list is
\* complete; then the estimators run one after the other in the order of
\* self._estimators, each once, each on the list enumerate returns and on
\* this call's self._sharder_map.
C6_EstimatorsInOrder ==
    /\ EnumerateEvents # <<>> =>
           /\ pc \in {"populate", "done"}
           /\ named_modules_queue = <<>>
           /\ cur = None
           /\ Len(visited) > 0
    /\ \A i \in 1..Len(EnumerateEvents) :
           /\ EnumerateEvents[i].ev = (IF i % 2 = 1 THEN "call" ELSE "return")
           /\ (i + 1) \div 2 <= Len(_estimators)
           /\ EnumerateEvents[i].estimator = _estimators[(i + 1) \div 2]
           /\ EnumerateEvents[i].sharding_options = sharding_options
           /\ EnumerateEvents[i].sharder_map = BuildSharderMap(sharders)
    /\ pc = "populate" /\ est_pc = "in_estimator" <=> Len(EnumerateEvents) % 2 = 1
    /\ returned # None =>
           /\ Len(EnumerateEvents) = 2 * Len(_estimators)
           /\ returned[1] = sharding_options

\* enumerate returned a list after both estimators ran on it
C6_Witness ==
    /\ pc = "done"
    /\ _estimators = <<"e1", "e2">>
    /\ returned[1] # <<>>
    /\ Len(EnumerateEvents) = 4


Owns(tower, name) ==
    \E k \in 1..Len(tower) :
        /\ tower[k].kind \in {"Embedding", "EmbeddingBag"}
        /\ tower[k].n[Len(tower[k].n)] = name

Owners(towers, name) == {t \in 1..Len(towers) : Owns(towers[t], name)}

\* C7: in a tower collection at path P a table of tower i gets the key
\* P.tower_i, so tables of one tower share their key and tables of different
\* towers do not; in a tower every table gets the tower's path; elsewhere the
\* key is None; a table no tower owns raises a RuntimeError.
C7_DependencyKeys ==
    /\ \A i \in 1..Len(sharding_options) :
           LET o == sharding_options[i]
               node == module[o.module[2]]
           IN  IF node.type = EmbeddingTowerCollection
               THEN \E t \in Owners(node.towers, o.name) :
                        o.dependency = Some(o.module[1] \o ".tower_" \o ToString(t - 1))
               ELSE IF node.type = EmbeddingTower
               THEN o.dependency = Some(o.module[1])
               ELSE o.dependency = None
    /\ \A i, j \in 1..Len(sharding_options) :
           LET a == sharding_options[i]
               b == sharding_options[j]
           IN  /\ a.module = b.module
               /\ module[a.module[2]].type = EmbeddingTowerCollection
               => (a.dependency = b.dependency
                       <=> Owners(module[a.module[2]].towers, a.name)
                               = Owners(module[a.module[2]].towers, b.name))
    /\ \A v \in TableVisits :
           /\ module[v.node].type = EmbeddingTowerCollection
           /\ Owners(module[v.node].towers, v.name) = {}
           => /\ pc = "raised"
              /\ raised[1].exc = "RuntimeError"
              /\ Survives(v) => raised[1].kind = "tower_index"
    /\ fin.op = "_get_tower_index" /\ fout # None =>
           IF Owners(fin.towers, fin.name) = {} THEN fout[1] = None
           ELSE fout[1] # None /\ fout[1][1] + 1 \in Owners(fin.towers, fin.name)

C7_Witness ==
    /\ pc = "done"
    /\ \E i, j, k \in 1..Len(returned[1]) :
           /\ returned[1][i].name = "t1"
           /\ returned[1][i].dependency = Some("encoder.towers.tower_0")
           /\ returned[1][j].name = "t2"
           /\ returned[1][j].dependency = Some("encoder.towers.tower_0")
           /\ returned[1][k].name = "t3"
           /\ returned[1][k].dependency = Some("encoder.towers.tower_1")

\* enumerate raised while it worked on table v
RaisedAt(v) ==
    /\ pc = "raised"
    /\ cur[1].node = v.node
    /\ module[cur[1].node].tables[cur[1].idx] = v.name

\* the table has a non-empty list of constrained sharding types
HasConstrainedTypes(constraints, name) ==
    /\ ConstraintsGet(constraints, name) # None
    /\ ConstraintsGet(constraints, name)[1].sharding_types # <<>>

\* C8 as stated: a filter that returns an empty list has warned; a table with
\* a surviving pair succeeds; the RuntimeError is raised exactly for a table
\* without a surviving pair.
C8_EmptyFilterWarns ==
    /\ fin.op \in {"_filter_sharding_types", "_filter_compute_kernels"} /\ fout # None =>
           (fout[1].result = <<>> => fout[1].warned)
    /\ \A i \in 1..Len(calls) : calls[i].result = <<>> => calls[i].warned
    /\ \A v \in TableVisits :
           /\ Survives(v) => ~RaisedAt(v)
           /\ ~Survives(v) <=> RaisedAt(v) /\ raised[1].exc = "RuntimeError"

\* C8 amended: the compute-kernel filter warns whenever the list it returns is
\* empty, the sharding-type filter only when the table has constrained
\* sharding types and none of them is allowed (an empty list of the sharder
\* passes through without a warning); neither raises.  A table with at least
\* one surviving pair is not refused by the check of lines 180-186, whatever
\* the filters returned for its other sharding types: it gets its options
\* unless the tower index or the partition class raises; the RuntimeError of
\* lines 181-186 is raised exactly for a table without a surviving pair.
C8_EmptyFilterIsNotFatal ==
    /\ fin.op = "_filter_compute_kernels" /\ fout # None =>
           (fout[1].warned <=> fout[1].result = <<>>)
    /\ fin.op = "_filter_sharding_types" /\ fout # None =>
           (fout[1].warned <=> /\ fout[1].result = <<>>
                               /\ HasConstrainedTypes(fin.constraints, fin.name))
    /\ \A i \in KernelCalls : calls[i].warned <=> calls[i].result = <<>>
    /\ \A i \in TypeCalls :
           calls[i].warned <=> /\ calls[i].result = <<>>
                               /\ HasConstrainedTypes(_constraints, calls[i].name)
    /\ \A v \in TableVisits :
           /\ Survives(v) /\ raised = None => OptionsOf(v) # {}
           /\ Survives(v) /\ RaisedAt(v) =>
                  raised[1].kind \in {"tower_index", "sharding_type"}
           /\ ~Survives(v) <=> RaisedAt(v) /\ raised[1].kind = "no_combination"

\* one sharding type of a table ended empty, with a warning, another one gave
\* options, and enumerate returned
C8_Witness ==
    /\ pc = "done"
    /\ \E i, j \in KernelCalls :
           /\ calls[i].node = calls[j].node
           /\ calls[i].name = calls[j].name
           /\ calls[i].result = <<>>
           /\ calls[i].warned
           /\ calls[j].result # <<>>

RECURSIVE PathTo(_), Hidden(_)
Parent(n) == CHOOSE p \in DOMAIN module :
                 \E k \in 1..Len(module[p].children) : module[p].children[k].m = n
NameOf(n) == LET k == CHOOSE k \in 1..Len(module[Parent(n)].children) :
                          module[Parent(n)].children[k].m = n
             IN  module[Parent(n)].children[k].n
\* the dotted path of node n
PathTo(n) ==
    IF n = 1 THEN ""
    ELSE IF Parent(n) = 1 THEN NameOf(n)
    ELSE PathTo(Parent(n)) \o "." \o NameOf(n)
\* n lies below a module that has a sharder
Hidden(n) ==
    IF n = 1 THEN FALSE
    ELSE \/ sharder_name(module[Parent(n)].type) \in DOMAIN _sharder_map
         \/ Hidden(Parent(n))

Visits(n) == Cardinality({i \in 1..Len(visited) : visited[i].node = n})

\* C9 as stated: when the walk is over, every module of the tree has been
\* visited once.
C9_EveryNodeVisited ==
    pc \in {"populate", "done"} =>
        \A n \in DOMAIN module : Visits(n) = 1

WalkIsExhaustive ==
    /\ \A i \in 1..Len(visited) : visited[i].path = PathTo(visited[i].node)
    /\ \A n \in DOMAIN module : Visits(n) <= 1
    /\ pc \in {"populate", "done"} =>
           /\ named_modules_queue = <<>>
           /\ \A n \in DOMAIN module : Visits(n) = (IF Hidden(n) THEN 0 ELSE 1)

\* C9 amended: enumerate ends; when it does not raise, the worklist is empty
\* and every module that does not lie below a module with a sharder has been
\* visited once, under its dotted path; the modules below a module with a
\* sharder are not visited.
C9_WalkTerminates ==
    /\ <>(pc \in {"done", "raised"})
    /\ []WalkIsExhaustive

C9_Witness ==
    /\ pc = "done"
    /\ module = TreeTwo
    /\ \E i \in 1..Len(visited) : visited[i] = [path |-> "b.c", node |-> 4]
    /\ Len(visited) = 4

====
